---- MODULE Spec2Model ----
(***************************************************************************)
(* A model of the stream-dropper engine (src/code.js, first revision of    *)
(* the file, lines 1-1070, with the configuration of src/unnamed/part_001). *)
(*                                                                         *)
(* Lengths and speeds are held in thousandths of a pixel (Px(1) = 1000),   *)
(* so that the fractional speeds of the code (ySpeed /= 1.05, *= 1.08)     *)
(* are fixed-point numbers.  A score is held as the exact numerator of the *)
(* code's value over the constant denominator MaxDist.                     *)
(***************************************************************************)
EXTENDS Integers, Sequences, FiniteSets

VARIABLES
    config,     \* the settings of class Config the engine reads
    viewport,   \* [w, h, txs]: clientWidth and clientHeight of the viewport
                \* element, and the positions positionTarget() draws in it
    sprites,    \* DropEngine.sprites: 0 is the Target, k >= 1 the dropper object k
    droppers,   \* the ParachuteDropper objects constructed so far, by object id
    pool,       \* EntityPool.pool
    target,     \* [x, droppers, cls]: Target.x, Target.droppers, its element's classes
    running,    \* DropEngine.running (a frame is scheduled exactly when it is TRUE)
    idleTime,   \* DropEngine.idleTime
    time,       \* [now, thisFrameTime, lastFrameTime, slept]: the time of the
                \* system clock, the frame timers of the engine, and the time
                \* between the last frame and the last start of the loop
    sheet,      \* [spriteCount, frame]: a SpriteSheet and the frame of a Sprite
                \* that uses it
    last        \* what the last operation emitted (notifications, sound cues, ...)

vars == <<config, viewport, sprites, droppers, pool, target, running, idleTime, time, sheet, last>>

----------------------------------------------------------------------------
(* Units and bounds                                                        *)

Px(n) == n * 1000

Abs(n) == IF n < 0 THEN -n ELSE n

\* The longest sprite list the model lets drop() build.  (The code has no such
\* limit: a dropper recycled before the frame that culls it is listed again.)
MaxSprites == 3

\* The user names of the commands.
Names == {"a", "b"}

\* The wall-clock deltas (ms) a frame can see.
DeltaTs == {0, 45000}

----------------------------------------------------------------------------
(* Program constants                                                       *)

EmoteW == 56
EmoteH == 56
ParachuteW == 120
ParachuteH == 120
TargetW == 390
TargetH == 110
SpawnY == -162
TerminalVelocity == 12
DeathTime == 5000
IdleTime == 90000
CutRangeLo == 750
CutRangeHi == 1500
CutRangeNull == FALSE
CutLockout == 1080
CutAllowed == TRUE
AbdicateAllowed == TRUE

\* class Config, as it is in the repository
ShippedConfig ==
    [IdleTime |-> IdleTime, CutAllowed |-> CutAllowed, CutRangeNull |-> CutRangeNull,
     CutLockout |-> CutLockout, AbdicateAllowed |-> AbdicateAllowed]

\* emote.setPos(parachuteW / 2 - emoteW / 2, parachuteH - round(emoteH / 4))
EmoteX == Px(ParachuteW) \div 2 - Px(EmoteW) \div 2
EmoteY == Px(ParachuteH) - Px((EmoteH + 2) \div 4)

\* score(): maxDist = target.width / 2 + emote.width / 2
MaxDist == Px(TargetW) \div 2 + Px(EmoteW) \div 2

\* update(): container.clientHeight - emote.height - 0.25 * target.height
LandingPlane(vp) == Px(vp.h) - Px(EmoteH) - Px(TargetH) \div 4

\* randomize(): dropperXOffs = round(clientWidth / 7) * 2
DropperXOffs(vp) == ((2 * vp.w + 7) \div 14) * 2

\* positionTarget(): randomIntInRange(1.5 emoteW, clientWidth - targetW - 1.5 emoteW)
TargetXLo == (3 * EmoteW) \div 2
TargetXHi(vp) == vp.w - TargetW - (3 * EmoteW) \div 2

----------------------------------------------------------------------------
(* Class lists, sequences                                                  *)

Toggle(S, c) == IF c \in S THEN S \ {c} ELSE S \cup {c}

RemoveAt(s, i) == [k \in 1..(Len(s) - 1) |-> IF k < i THEN s[k] ELSE s[k + 1]]

Front(s) == [k \in 1..(Len(s) - 1) |-> s[k]]

Count(s, e) == Cardinality({k \in 1..Len(s) : s[k] = e})

----------------------------------------------------------------------------
(* The world an operation reads and writes.  Every method of the code is   *)
(* an operator from a world to the world after it:                         *)
(*   cfg, vp, sprites, d, pool, running, idleTime: the variables of that   *)
(*   name                                                                  *)
(*   tx, td, tcls: Target.x, Target.droppers, the Target element's classes *)
(*   notes: the transmitDropStatus calls of the operation, in order        *)
(*   cues: the sounds played;  loses: the handleLose calls, by object      *)
(*   arbRan, arbIn: whether Target.update ran in the operation, and        *)
(*   Target.droppers as it was when it was called                          *)
(*   took, was: the object drop() took from the pool (0 if none), and its  *)
(*   flags as it lay there                                                 *)
(*   upd: the entities whose update() was called, in the order of the      *)
(*   calls                                                                 *)
(*   started: whether startRenderLoop ran;  stoppedAt: the idleTime at     *)
(*   which stopRenderLoop ran (0 if it did not run)                        *)

SetD(w, o, r) == [w EXCEPT !.d[o] = r]

\* Entity.play(snd, volume, restart)
Play(w, snd) == [w EXCEPT !.cues = Append(@, snd)]

\* Entity.constructor ... ParachuteDropper.constructor, before randomize(name).
\* Two fields are the history of the current drop, kept for the properties:
\* cutWait, the deltaT of the updates since its cut request that began with
\* the cut still pending (counted up to CutRangeHi), and sent, the
\* <<onTarget, winner>> pairs of the notifications it has transmitted.
\* A third is the history of the object's place in the sprite list: quit, the
\* name under which it abdicated, until a frame removes it from the list.
NewDropper ==
    [name |-> "", x |-> 0, y |-> 0, xSpeed |-> 0, ySpeed |-> 0,
     brakeHeight |-> 0, deployed |-> FALSE, landed |-> FALSE,
     cutRequested |-> FALSE, cutTriggered |-> FALSE, cutClock |-> 0,
     winner |-> FALSE, dropComplete |-> FALSE, deathClock |-> 0,
     dropScore |-> 0, dead |-> FALSE,
     el |-> {}, chute |-> {}, emote |-> {}, nameBox |-> {}, scoreBox |-> {},
     anim |-> FALSE, cutWait |-> 0, sent |-> <<>>, quit |-> ""]

\* The random draws of one randomize(name) call: a slow drop to the left from
\* the middle of randomIntInRange(dropperXOffs, clientWidth - dropperXOffs), or a
\* fast drop to the right from its upper end.
Draws(vp) ==
    [x : {vp.w \div 2}, xSpeed : {-Px(3)}, ySpeed : {Px(8)},
     brakeHeight : {1}, cutClock : {CutRangeLo}]
    \cup
    [x : {vp.w - DropperXOffs(vp)}, xSpeed : {4500}, ySpeed : {9500},
     brakeHeight : {8}, cutClock : {CutRangeHi - 1}]

\* The draws of positionTarget(): a viewport record names the ones it allows.
TargetXs(vp) == {tx \in vp.txs : TargetXLo <= tx /\ tx <= TargetXHi(vp)}

\* randomize(): the flags, clocks and score a new drop starts from
\* (ResetDropKeepsWinner: the same without this.winner = false)
ResetDropKeepsWinner(r) ==
    [r EXCEPT !.landed = FALSE, !.deployed = FALSE,
              !.cutRequested = FALSE, !.cutTriggered = FALSE,
              !.dropComplete = FALSE, !.deathClock = 0, !.dropScore = 0]

ResetDrop(r) ==
    [r EXCEPT !.landed = FALSE, !.deployed = FALSE,
              !.cutRequested = FALSE, !.cutTriggered = FALSE,
              !.winner = FALSE, !.dropComplete = FALSE,
              !.deathClock = 0, !.dropScore = 0]

\* ParachuteDropper.randomize(name)
\* (RandomizeDrawsClock: the same with the cut clock drawn even if CutRange is null)
RandomizeDrawsClock(r, name, rnd, cfg) ==
    [ResetDrop(r) EXCEPT
       !.chute = (@ \cup {"ghost"}) \ {"releaseChute"},
       !.emote = @ \ {"cut", "cutDrop"},
       !.nameBox = @ \ {"ghost"},
       !.scoreBox = (@ \cup {"hide"}) \ {"fadeIn"},
       !.el = @ \ {"ghost", "sway", "loser", "reap"},
       !.anim = FALSE,
       !.cutWait = 0,
       !.sent = <<>>,
       !.name = name,
       !.brakeHeight = rnd.brakeHeight,
       !.cutClock = rnd.cutClock,
       !.x = Px(rnd.x),
       !.y = Px(SpawnY),
       !.xSpeed = rnd.xSpeed,
       !.ySpeed = rnd.ySpeed]

Randomize(r, name, rnd, cfg) ==
    [ResetDrop(r) EXCEPT
       !.chute = (@ \cup {"ghost"}) \ {"releaseChute"},
       !.emote = @ \ {"cut", "cutDrop"},
       !.nameBox = @ \ {"ghost"},
       !.scoreBox = (@ \cup {"hide"}) \ {"fadeIn"},
       !.el = @ \ {"ghost", "sway", "loser", "reap"},
       !.anim = FALSE,
       !.cutWait = 0,
       !.sent = <<>>,
       !.name = name,
       !.brakeHeight = rnd.brakeHeight,
       !.cutClock = IF cfg.CutRangeNull THEN 0 ELSE rnd.cutClock,
       !.x = Px(rnd.x),
       !.y = Px(SpawnY),
       !.xSpeed = rnd.xSpeed,
       !.ySpeed = rnd.ySpeed]

\* ParachuteDropper.transmitDropStatus(onTarget, winner, voluntary)
TransmitDropStatus(w, o, onTarget, winner, voluntary) ==
    [w EXCEPT !.notes = Append(@, [obj |-> o, name |-> w.d[o].name,
                                   onTarget |-> onTarget, winner |-> winner,
                                   voluntary |-> voluntary]),
              !.d[o].sent = Append(@, <<onTarget, winner>>)]

\* ParachuteDropper.handleLose()
\* (HandleLoseKeepsWinner: the same without this.winner = false)
HandleLoseKeepsWinner(w, o) ==
    [w EXCEPT !.d[o].el = Toggle(@, "loser"),
              !.d[o].nameBox = Toggle(@, "ghost"),
              !.loses = Append(@, o)]

HandleLose(w, o) ==
    [w EXCEPT !.d[o].winner = FALSE,
              !.d[o].el = Toggle(@, "loser"),
              !.d[o].nameBox = Toggle(@, "ghost"),
              !.loses = Append(@, o)]

\* ParachuteDropper.score(), as the numerator of the score over MaxDist
\* (ScoreSigned: the same without Math.abs)
ScoreSigned(r, tx) ==
    LET midTarget == Px(tx) + Px(TargetW) \div 2
        midEmote == r.x + EmoteX + Px(EmoteW) \div 2
    IN 100 * MaxDist - (midTarget - midEmote) * 100

Score(r, tx) ==
    LET midTarget == Px(tx) + Px(TargetW) \div 2
        midEmote == r.x + EmoteX + Px(EmoteW) \div 2
    IN 100 * MaxDist - Abs(midTarget - midEmote) * 100

\* Target.addDropper(dropper)
AddDropper(w, o) == [w EXCEPT !.td = Append(@, o)]

\* ParachuteDropper.handleWin()
ShowScore(w, o) ==
    [w EXCEPT !.d[o].dropScore = Score(w.d[o], w.tx),
              !.d[o].scoreBox = Toggle(Toggle(@, "hide"), "fadeIn")]

HandleWin(w, o) ==
    AddDropper(TransmitDropStatus(
                   ShowScore(Play([w EXCEPT !.d[o].winner = TRUE], "Winner"), o),
                   o, TRUE, TRUE, FALSE),
               o)

\* ParachuteDropper.landed_update(deltaT)
\* (LandedUpdateWinnerToo: the same without the test of this.winner;
\*  LandedUpdateLate: the same with deathClock > DeathTime)
LandedUpdateLate(w, o, deltaT) ==
    LET r == w.d[o] IN
    IF r.winner \/ r.dropComplete THEN w
    ELSE LET clock == r.deathClock + deltaT IN
         IF clock > DeathTime
         THEN LET el == Toggle(Toggle(r.el, "reap"), "ghost") IN
              SetD(w, o, [r EXCEPT !.deathClock = clock, !.dropComplete = TRUE,
                                   !.el = el, !.anim = ("reap" \in el)])
         ELSE SetD(w, o, [r EXCEPT !.deathClock = clock])

LandedUpdateWinnerToo(w, o, deltaT) ==
    LET r == w.d[o] IN
    IF r.dropComplete THEN w
    ELSE LET clock == r.deathClock + deltaT IN
         IF clock >= DeathTime
         THEN LET el == Toggle(Toggle(r.el, "reap"), "ghost") IN
              SetD(w, o, [r EXCEPT !.deathClock = clock, !.dropComplete = TRUE,
                                   !.el = el, !.anim = ("reap" \in el)])
         ELSE SetD(w, o, [r EXCEPT !.deathClock = clock])

LandedUpdate(w, o, deltaT) ==
    LET r == w.d[o] IN
    IF r.winner \/ r.dropComplete THEN w
    ELSE LET clock == r.deathClock + deltaT IN
         IF clock >= DeathTime
         THEN LET el == Toggle(Toggle(r.el, "reap"), "ghost") IN
              SetD(w, o, [r EXCEPT !.deathClock = clock, !.dropComplete = TRUE,
                                   !.el = el, !.anim = ("reap" \in el)])
         ELSE SetD(w, o, [r EXCEPT !.deathClock = clock])

\* ParachuteDropper.cut_update(deltaT)
\* (CutUpdateAtOnce: the same with the parachute released whatever the clock)
CutUpdateAtOnce(w, o, deltaT) ==
    LET r == w.d[o] IN
    SetD(w, o, [r EXCEPT !.cutClock = @ - deltaT,
                         !.el = @ \ {"sway"},
                         !.chute = @ \cup {"ghost", "releaseChute"},
                         !.cutTriggered = TRUE])

CutUpdate(w, o, deltaT) ==
    LET r == w.d[o]
        clock == r.cutClock - deltaT
    IN IF clock <= 0
       THEN SetD(w, o, [r EXCEPT !.cutClock = clock,
                                 !.el = @ \ {"sway"},
                                 !.chute = @ \cup {"ghost", "releaseChute"},
                                 !.cutTriggered = TRUE])
       ELSE SetD(w, o, [r EXCEPT !.cutClock = clock])

\* ParachuteDropper.deploy_chute(deltaT)
DeployChute(w, o) ==
    LET r == w.d[o] IN
    Play(SetD(w, o, [r EXCEPT !.deployed = TRUE,
                              !.chute = Toggle(Toggle(@, "ghost"), "deployChute"),
                              !.el = Toggle(@, "sway")]),
         "Parachute")

\* ParachuteDropper.cut_chute()
\* (CutChuteQuiet: the same without the buzz)
CutChuteQuiet(w, o) ==
    LET r == w.d[o] IN
    IF r.cutRequested \/ r.y > Px(w.cfg.CutLockout)
    THEN w
    ELSE Play(SetD(w, o, [r EXCEPT !.emote = @ \cup {"cut", "cutDrop"},
                                   !.cutRequested = TRUE]),
              "Snip")

CutChute(w, o) ==
    LET r == w.d[o] IN
    IF r.cutRequested \/ r.y > Px(w.cfg.CutLockout)
    THEN IF ~r.landed THEN Play(w, "Buzz") ELSE w
    ELSE Play(SetD(w, o, [r EXCEPT !.emote = @ \cup {"cut", "cutDrop"},
                                   !.cutRequested = TRUE]),
              "Snip")

\* ParachuteDropper.land(deltaT)
Land(w, o) ==
    LET r == w.d[o] IN
    SetD(Play(w, "Land"), o,
         [r EXCEPT !.landed = TRUE,
                   !.el = @ \ {"sway"},
                   !.emote = @ \ {"cut", "cutDrop"},
                   !.chute = IF ~r.cutRequested
                             THEN @ \cup {"ghost", "releaseChute"} ELSE @])

\* The test of update() that decides between handleWin and handleLose
\* (OnTargetLoose: the same with >= and <=).
OnTargetLoose(emoteX, tx) ==
    emoteX >= Px(tx) - Px(EmoteW) /\ emoteX <= Px(tx) + Px(TargetW)

OnTarget(emoteX, tx) ==
    emoteX > Px(tx) - Px(EmoteW) /\ emoteX < Px(tx) + Px(TargetW)

\* The free-fall step of update(): ySpeed *= 1.08 while ySpeed < 12.
Accelerate(r) ==
    IF r.cutTriggered /\ r.ySpeed < Px(TerminalVelocity)
    THEN [r EXCEPT !.ySpeed = (@ * 108) \div 100] ELSE r

\* The braking step of update(): ySpeed /= 1.05 below the brake height.
\* (BrakeToStandstill: the same without the test of ySpeed > 0.5)
BrakeToStandstill(r) ==
    IF ~r.cutTriggered /\ r.y >= Px(r.brakeHeight)
    THEN [r EXCEPT !.ySpeed = (@ * 100) \div 105] ELSE r

Brake(r) ==
    IF ~r.cutTriggered /\ r.y >= Px(r.brakeHeight) /\ r.ySpeed > 500
    THEN [r EXCEPT !.ySpeed = (@ * 100) \div 105] ELSE r

\* update(): the clock of a requested cut ticks until the cut is triggered.
\* (TickCutUnasked: the same without the test of cutRequested)
TickCutUnasked(w, o, deltaT) ==
    IF ~w.d[o].cutTriggered THEN CutUpdate(w, o, deltaT) ELSE w

TickCut(w, o, deltaT) ==
    IF w.d[o].cutRequested /\ ~w.d[o].cutTriggered THEN CutUpdate(w, o, deltaT) ELSE w

\* The frame time deltaT of an update that begins with the cut requested and
\* not yet triggered, added to the time the dropper has waited for its cut.
Waited(w, o, deltaT) ==
    IF w.d[o].cutRequested /\ ~w.d[o].cutTriggered
    THEN [w EXCEPT !.d[o].cutWait = IF @ + deltaT > CutRangeHi THEN CutRangeHi
                                    ELSE @ + deltaT]
    ELSE w

\* update(): this.x += this.xSpeed; this.y += this.ySpeed
Move(r) == [r EXCEPT !.x = @ + r.xSpeed, !.y = @ + r.ySpeed]

\* update(): the move, then the braking and free-fall steps
Fall(w, o) == SetD(w, o, Accelerate(Brake(Move(w.d[o]))))

\* update(): the parachute deploys once the dropper is on the screen.
\* (DeployDespiteCut: the same without the test of cutRequested)
DeployDespiteCut(w, o) ==
    IF ~w.d[o].deployed /\ w.d[o].y >= 0
    THEN DeployChute(w, o) ELSE w

Deploy(w, o) ==
    IF ~w.d[o].deployed /\ ~w.d[o].cutRequested /\ w.d[o].y >= 0
    THEN DeployChute(w, o) ELSE w

\* update(): bounce on the left and right viewport edges
\* (BounceNever: the same without the bounce)
BounceNever(w, o) == w

Bounce(w, o) ==
    IF w.d[o].x + EmoteX <= 0 \/ w.d[o].x + EmoteX >= Px(w.vp.w) - Px(EmoteW)
    THEN SetD(w, o, [w.d[o] EXCEPT !.xSpeed = -1 * @]) ELSE w

\* update(): the landed dropper wins or loses
\* (SettleMissOnTarget: the same with a miss transmitted as onTarget = true)
SettleMissOnTarget(w, o) ==
    IF OnTarget(w.d[o].x + EmoteX, w.tx)
    THEN HandleWin(w, o)
    ELSE TransmitDropStatus(HandleLose(w, o), o, TRUE, FALSE, FALSE)

Settle(w, o) ==
    IF OnTarget(w.d[o].x + EmoteX, w.tx)
    THEN HandleWin(w, o)
    ELSE TransmitDropStatus(HandleLose(w, o), o, FALSE, FALSE, FALSE)

\* update(): touch down at the landing plane
TouchDown(w, o) ==
    IF w.d[o].y + EmoteY >= LandingPlane(w.vp) THEN Settle(Land(w, o), o) ELSE w

\* ParachuteDropper.update(deltaT)
\* (DropperUpdateDrifts: the same with a landed dropper still moved)
DropperUpdateDrifts(w, o, deltaT) ==
    IF w.d[o].landed THEN LandedUpdate(SetD(w, o, Move(w.d[o])), o, deltaT)
    ELSE TouchDown(Bounce(Deploy(Fall(TickCut(Waited(w, o, deltaT), o, deltaT), o), o), o), o)

DropperUpdate(w, o, deltaT) ==
    IF w.d[o].landed THEN LandedUpdate(w, o, deltaT)
    ELSE TouchDown(Bounce(Deploy(Fall(TickCut(Waited(w, o, deltaT), o, deltaT), o), o), o), o)

----------------------------------------------------------------------------
(* Target                                                                  *)

\* Target.ditchLoser(dropper, voluntary)
\* (DitchLoserSilent: the same without the transmitDropStatus call)
DitchLoserSilent(w, o, voluntary) == HandleLose(w, o)

DitchLoser(w, o, voluntary) ==
    TransmitDropStatus(HandleLose(w, o), o, TRUE, FALSE, voluntary)

\* Target.abdicateDropper(name): the first dropper of that name, if any
RECURSIVE AbdicateScan(_, _, _)
AbdicateScan(w, name, i) ==
    IF i > Len(w.td) THEN w
    ELSE IF w.d[w.td[i]].name = name
         THEN [DitchLoser(w, w.td[i], TRUE) EXCEPT !.td = RemoveAt(@, i),
                                                   !.d[w.td[i]].quit = name]
         ELSE AbdicateScan(w, name, i + 1)

AbdicateDropper(w, name) == AbdicateScan(w, name, 1)

\* The comparison of Target.update() that makes droppers[i] the new high dropper
\* (BeatsOrTies: the same with >=; BeatsFromBelow: with <).
BeatsOrTies(w, c, high) == w.d[c].dropScore >= w.d[high].dropScore

BeatsFromBelow(w, c, high) == w.d[c].dropScore < w.d[high].dropScore

Beats(w, c, high) == w.d[c].dropScore > w.d[high].dropScore

\* The loop of Target.update(); high = 0 stands for highDropper === undefined.
RECURSIVE ArbScan(_, _, _)
ArbScan(w, i, high) ==
    IF i > Len(w.td) THEN [w EXCEPT !.td = <<high>>]
    ELSE IF high = 0 \/ Beats(w, w.td[i], high)
         THEN ArbScan(IF high # 0 THEN DitchLoser(w, high, FALSE) ELSE w,
                      i + 1, w.td[i])
         ELSE ArbScan(DitchLoser(w, w.td[i], FALSE), i + 1, high)

\* Target.update(deltaT)
\* (TargetUpdateKeepsAll: the same without the arbitration loop)
TargetUpdateKeepsAll(w) == [w EXCEPT !.arbRan = TRUE, !.arbIn = w.td]

TargetUpdate(w) ==
    IF Len(w.td) > 1
    THEN ArbScan([w EXCEPT !.arbRan = TRUE, !.arbIn = w.td], 1, 0)
    ELSE [w EXCEPT !.arbRan = TRUE, !.arbIn = w.td]

----------------------------------------------------------------------------
(* EntityPool and DropEngine                                               *)

\* EntityPool.add(entity)
PoolAdd(w, o) == [w EXCEPT !.pool = Append(@, o)]

\* ParachuteDropper.kill()
Kill(w, o) == [PoolAdd(w, o) EXCEPT !.d[o].dead = TRUE, !.d[o].anim = FALSE]

\* DropEngine.stopRenderLoop()
RECURSIVE KillAll(_, _)
KillAll(w, i) == IF i > Len(w.td) THEN w ELSE KillAll(Kill(w, w.td[i]), i + 1)

StopRenderLoop(w) ==
    [KillAll(w, 1) EXCEPT !.td = <<>>,
                          !.tcls = (@ \cup {"ghost", "fadeOut"}) \ {"fadeIn"},
                          !.running = FALSE,
                          !.stoppedAt = w.idleTime]

\* The call of update() on entity e, noted in upd.
Called(w, e) == [w EXCEPT !.upd = Append(@, e)]

\* sprites[i].update(deltaT), by the class of the entity
EntityUpdate(w, e, deltaT) ==
    IF e = 0 THEN TargetUpdate(Called(w, e))
    ELSE DropperUpdate(Called(w, e), e, deltaT)

\* renderLoop(): if (this.sprites[i].dead) this.sprites.splice(i, 1)
Cull(w, i) ==
    IF w.sprites[i] # 0 /\ w.d[w.sprites[i]].dead
    THEN [w EXCEPT !.sprites = RemoveAt(@, i), !.d[w.sprites[i]].quit = ""] ELSE w

\* The update pass of renderLoop(): from the last sprite down to the first.
RECURSIVE UpdatePass(_, _, _)
UpdatePass(w, i, deltaT) ==
    IF i = 0 THEN w
    ELSE UpdatePass(Cull(EntityUpdate(w, w.sprites[i], deltaT), i), i - 1, deltaT)

\* renderLoop(): the loop stops once the engine has been idle for IdleTime.
\* (IdleCheckLate: the same with twice the time;
\*  IdleCheckAlways: the same without the test that IdleTime is not 0)
IdleCheckLate(w) ==
    IF w.cfg.IdleTime # 0 /\ w.idleTime >= 2 * w.cfg.IdleTime
    THEN StopRenderLoop(w) ELSE w

IdleCheckAlways(w) ==
    IF w.idleTime >= w.cfg.IdleTime
    THEN StopRenderLoop(w) ELSE w

IdleCheck(w) ==
    IF w.cfg.IdleTime # 0 /\ w.idleTime >= w.cfg.IdleTime
    THEN StopRenderLoop(w) ELSE w

\* renderLoop(): the update of every sprite of the list
UpdateAll(w, deltaT) == UpdatePass(w, Len(w.sprites), deltaT)

\* renderLoop(): idle is the Target alone, or the Target and the one dropper on it.
\* (IdleTickAnyTwo: the same without the test of Target.droppers)
IdleTickAnyTwo(w, deltaT) ==
    [w EXCEPT !.idleTime = IF Len(w.sprites) <= 2 THEN @ + deltaT ELSE 0]

IdleTick(w, deltaT) ==
    [w EXCEPT !.idleTime =
        IF Len(w.sprites) = 1 \/ (Len(w.sprites) = 2 /\ Len(w.td) = 1)
        THEN @ + deltaT ELSE 0]

\* renderLoop(): another frame is requested while running, else idleTime = 0.
Reschedule(w) == IF w.running THEN w ELSE [w EXCEPT !.idleTime = 0]

\* DropEngine.renderLoop(), deltaT being thisFrameTime - lastFrameTime
RenderLoop(w, deltaT) ==
    Reschedule(IdleTick(UpdateAll(IdleCheck(w), deltaT), deltaT))

\* renderLoop(): lastFrameTime = thisFrameTime; thisFrameTime = the clock
ClockRead(w) ==
    [w EXCEPT !.time.lastFrameTime = w.time.thisFrameTime,
              !.time.thisFrameTime = w.time.now]

\* renderLoop(): deltaT = thisFrameTime - lastFrameTime
DeltaT(w) == w.time.thisFrameTime - w.time.lastFrameTime

\* DropEngine.renderLoop() with the deltaT it computes from the clock
TimedRenderLoop(w) == RenderLoop(ClockRead(w), DeltaT(ClockRead(w)))

\* startRenderLoop(): thisFrameTime = the clock; lastFrameTime = 0
\* (ClockResetKeepsTime: the same without the reset of thisFrameTime)
ClockResetKeepsTime(w) ==
    [w EXCEPT !.time.slept = w.time.now - w.time.thisFrameTime,
              !.time.lastFrameTime = 0]

ClockReset(w) ==
    [w EXCEPT !.time.slept = w.time.now - w.time.thisFrameTime,
              !.time.thisFrameTime = w.time.now,
              !.time.lastFrameTime = 0]

\* DropEngine.startRenderLoop(); tx is the draw of positionTarget()
StartRenderLoop(w, tx) ==
    TimedRenderLoop(ClockReset([w EXCEPT !.tx = tx,
                                         !.tcls = (@ \ {"ghost", "fadeOut"}) \cup {"fadeIn"},
                                         !.running = TRUE,
                                         !.started = TRUE]))

\* The scan of drop() and cut() for a sprite of the given name.
RECURSIVE FindName(_, _, _)
FindName(w, name, i) ==
    IF i > Len(w.sprites) THEN 0
    ELSE IF w.sprites[i] # 0 /\ w.d[w.sprites[i]].name = name THEN i
         ELSE FindName(w, name, i + 1)

\* The flags of a dropper, as drop() found them on the one it took from the pool.
Flags(r) ==
    [winner |-> r.winner, landed |-> r.landed, dropComplete |-> r.dropComplete,
     cutRequested |-> r.cutRequested, cutTriggered |-> r.cutTriggered,
     deployed |-> r.deployed]

\* EntityPool.get() and the construction or reuse of a dropper in drop()
TakeDropper(w, name, rnd) ==
    IF w.pool # <<>>
    THEN LET o == w.pool[Len(w.pool)] IN
         [w EXCEPT !.pool = Front(@),
                   !.took = o, !.was = Flags(w.d[o]),
                   !.d[o] = Randomize([@ EXCEPT !.dead = FALSE], name, rnd, w.cfg),
                   !.sprites = Append(@, o)]
    ELSE LET o == Len(w.d) + 1 IN
         [w EXCEPT !.d = Append(@, Randomize(NewDropper, name, rnd, w.cfg)),
                   !.sprites = Append(@, o)]

\* drop(): the scan for a sprite of the name, then the new drop
ScanAndTake(w, name, rnd) ==
    IF FindName(w, name, 1) # 0 THEN w ELSE TakeDropper(w, name, rnd)

\* DropEngine.drop(name, emoteId)
\* (DropOpStartsLast: the same with the loop started after the new drop)
DropOpStartsLast(w, name, tx, rnd) ==
    IF ~w.running THEN StartRenderLoop(ScanAndTake(w, name, rnd), tx)
    ELSE ScanAndTake(w, name, rnd)

DropOp(w, name, tx, rnd) ==
    ScanAndTake(IF ~w.running THEN StartRenderLoop(w, tx) ELSE w, name, rnd)

\* DropEngine.cut(name)
CutOp(w, name) ==
    IF ~w.cfg.CutAllowed \/ ~w.running THEN w
    ELSE LET i == FindName(w, name, 1) IN
         IF i = 0 THEN w ELSE CutChute(w, w.sprites[i])

\* DropEngine.abdicate(name)
\* (AbdicateOpAlways: the same without the test of Config.AbdicateAllowed)
AbdicateOpAlways(w, name) == AbdicateDropper(w, name)

AbdicateOp(w, name) ==
    IF ~w.cfg.AbdicateAllowed THEN w ELSE AbdicateDropper(w, name)

\* ParachuteDropper.animationEnd(event), for event.animationName = 'reapDropper'
AnimationEndOp(w, o) == Kill(w, o)

----------------------------------------------------------------------------
(* The engine as a state machine                                           *)

\* The viewport of the engine specification: wide enough for a dropper to miss
\* the Target, low enough for a drop of a few frames; the Target at the left end
\* of its range.
EngineViewport == [w |-> 600, h |-> 60, txs |-> {TargetXLo}]

World ==
    [cfg |-> config, vp |-> viewport, sprites |-> sprites, d |-> droppers, pool |-> pool,
     tx |-> target.x, td |-> target.droppers, tcls |-> target.cls,
     running |-> running, idleTime |-> idleTime, time |-> time,
     notes |-> <<>>, cues |-> <<>>, loses |-> <<>>,
     arbRan |-> FALSE, arbIn |-> <<>>,
     took |-> 0, was |-> Flags(NewDropper),
     started |-> FALSE, stoppedAt |-> 0, upd |-> <<>>]

\* The state after an operation that leaves the world w.  last keeps what the
\* operation emitted and, for a drop that put object took in the list from the
\* pool, the flags it had there.
Commit(w) ==
    /\ config' = w.cfg
    /\ viewport' = w.vp
    /\ sprites' = w.sprites
    /\ droppers' = w.d
    /\ pool' = w.pool
    /\ target' = [x |-> w.tx, droppers |-> w.td, cls |-> w.tcls]
    /\ running' = w.running
    /\ idleTime' = w.idleTime
    /\ time' = w.time
    /\ sheet' = sheet
    /\ last' = [took |-> w.took, was |-> w.was,
                notes |-> w.notes, cues |-> w.cues, loses |-> w.loses,
                arbRan |-> w.arbRan, arbIn |-> w.arbIn,
                started |-> w.started, stoppedAt |-> w.stoppedAt, upd |-> w.upd]

\* new SpriteSheet('target', Config.TargetSpriteInfo, 390, 110), and frame 0
\* of the Sprite constructor
TargetSheet == [spriteCount |-> 1, frame |-> 0]

\* The clock and the timers of a page that has just been loaded, taken as
\* the origin of time.
Time0 == [now |-> 0, thisFrameTime |-> 0, lastFrameTime |-> 0, slept |-> 0]

Nothing ==
    [took |-> 0, was |-> Flags(NewDropper),
     notes |-> <<>>, cues |-> <<>>, loses |-> <<>>,
     arbRan |-> FALSE, arbIn |-> <<>>,
     started |-> FALSE, stoppedAt |-> 0, upd |-> <<>>]

\* new DropEngine(): the Target alone in the sprite list, hidden, loop not running
\* (Config.IdleTime is not 0, so the loop is not started at load).
Init ==
    /\ config = ShippedConfig
    /\ viewport = EngineViewport
    /\ sprites = <<0>>
    /\ droppers = <<>>
    /\ pool = <<>>
    /\ target \in [x : TargetXs(viewport), droppers : {<<>>}, cls : {{"ghost"}}]
    /\ running = FALSE
    /\ idleTime = 0
    /\ time = Time0
    /\ sheet = TargetSheet
    /\ last = Nothing

\* The state after an operation, if its sprite list is within the bound.
Listed(w) == Len(w.sprites) <= MaxSprites /\ Commit(w)

\* engine.drop(name)
Drop(name) ==
    \E tx \in (IF running THEN {target.x} ELSE TargetXs(viewport)),
       rnd \in Draws(viewport) :
       Listed(DropOp(World, name, tx, rnd))

\* engine.cut(name)
Cut(name) == Commit(CutOp(World, name))

\* engine.abdicate(name)
Abdicate(name) == Commit(AbdicateOp(World, name))

\* The animationend event of a dropper whose fade-out (class reap) has run.
AnimationEnd(o) ==
    /\ droppers[o].anim
    /\ Commit(AnimationEndOp(World, o))

\* The animation frame the running loop has requested.
Frame(deltaT) ==
    /\ running
    /\ Commit(RenderLoop(World, deltaT))

Next ==
    \/ \E name \in Names : Drop(name)
    \/ \E name \in Names : Cut(name)
    \/ \E name \in Names : Abdicate(name)
    \/ \E o \in 1..Len(droppers) : AnimationEnd(o)
    \/ \E deltaT \in DeltaTs : Frame(deltaT)

Spec == Init /\ [][Next]_vars

----------------------------------------------------------------------------
(* Specifications of single concerns.  Each starts in the state the engine *)
(* is in right after the drop commands of its droppers, loop running, and  *)
(* lets the frames run.                                                    *)

\* The state after drop(names[1]), drop(names[2]), ... with the draws rnds.
Dropped(cfg, vp, tx, names, rnds) ==
    /\ config = cfg
    /\ viewport = vp
    /\ sprites = <<0>> \o [i \in 1..Len(names) |-> i]
    /\ droppers = [i \in 1..Len(names) |->
                      Randomize(NewDropper, names[i], rnds[i], cfg)]
    /\ pool = <<>>
    /\ target = [x |-> tx, droppers |-> <<>>, cls |-> {"fadeIn"}]
    /\ running = TRUE
    /\ idleTime = 0
    /\ time = Time0
    /\ sheet = TargetSheet
    /\ last = Nothing

\* Arbitration: up to MaxArb droppers that land in the same frame or one frame
\* apart, at spawn positions that give equal scores (214 and 254 to the left,
\* 201 to the right), a score of 100 (234 to the left) and a miss (428).
MaxArb == 3
ArbNames == <<"a", "b", "c", "d", "e">>
ArbViewport == [w |-> 600, h |-> 60, txs |-> {TargetXLo}]

ArbDraws ==
    [x : {214, 234, 254}, xSpeed : {-Px(3)}, ySpeed : {Px(8)},
     brakeHeight : {1}, cutClock : {CutRangeLo}]
    \cup
    [x : {201, 428}, xSpeed : {4500}, ySpeed : {9500},
     brakeHeight : {8}, cutClock : {CutRangeHi - 1}]

InitArb ==
    \E n \in 2..MaxArb : \E rnds \in [1..n -> ArbDraws] :
       Dropped(ShippedConfig, ArbViewport, TargetXLo, SubSeq(ArbNames, 1, n), rnds)

NextArb == \E deltaT \in DeltaTs : Frame(deltaT)

SpecArb == InitArb /\ [][NextArb]_vars

\* Landing: one dropper at every spawn position of a viewport 1200 wide, beside
\* a second one at a few (373 and 595 to the left come down one pixel inside the
\* left edge and on the centre of a Target at 445), with the Target at both ends
\* and inside its range.
LandViewport == [w |-> 1200, h |-> 60, txs |-> {TargetXLo, 445, 726}]

LandDraws(xs) ==
    [x : xs, xSpeed : {-Px(3), 4500}, ySpeed : {Px(8)},
     brakeHeight : {1}, cutClock : {CutRangeLo}]

InitLand ==
    \E tx \in TargetXs(LandViewport) :
    \E r1 \in LandDraws(DropperXOffs(LandViewport)
                        .. (LandViewport.w - DropperXOffs(LandViewport))) :
    \E r2 \in LandDraws({373, 595, 640}) :
       Dropped(ShippedConfig, LandViewport, tx, <<"a", "b">>, <<r1, r2>>)

NextLand == \E deltaT \in DeltaTs : Frame(deltaT)

SpecLand == InitLand /\ [][NextLand]_vars

\* Falling: one dropper in a viewport high enough for the parachute to deploy
\* and brake, with cut commands at any frame.
FallViewport == [w |-> 600, h |-> 300, txs |-> {TargetXLo}]
FallDeltaTs == {400, 5000}

FallDraws ==
    [x : {300}, xSpeed : {-Px(3)}, ySpeed : {Px(8), 8700, 9500, 9999},
     brakeHeight : {1, 8}, cutClock : {CutRangeLo}]

InitFall ==
    \E rnd \in FallDraws :
       Dropped(ShippedConfig, FallViewport, TargetXLo, <<"a">>, <<rnd>>)

NextFall ==
    \/ \E deltaT \in FallDeltaTs : Frame(deltaT)
    \/ /\ ~droppers[1].landed
       /\ Cut("a")

SpecFall == InitFall /\ [][NextFall]_vars

\* Relaunching: the engine with a sprite list of up to MaxRelaunch entries,
\* frames of the death time, and drop and abdicate commands.
MaxRelaunch == 4
RelaunchDeltaTs == {DeathTime}

Relaunch(name) ==
    \E tx \in (IF running THEN {target.x} ELSE TargetXs(viewport)),
       rnd \in Draws(viewport) :
       \E w \in {DropOp(World, name, tx, rnd)} :
          Len(w.sprites) <= MaxRelaunch /\ Commit(w)

NextRelaunch ==
    \/ \E name \in Names : Relaunch(name)
    \/ \E name \in Names : Abdicate(name)
    \/ \E o \in 1..Len(droppers) : AnimationEnd(o)
    \/ \E deltaT \in RelaunchDeltaTs : Frame(deltaT)

SpecRelaunch == Init /\ [][NextRelaunch]_vars

\* Recycling: droppers that deploy their parachute in a viewport 300 high,
\* land, are reaped or killed by the idle timeout, and are dropped again from
\* the pool.
RecycleViewport == [w |-> 600, h |-> 300, txs |-> {TargetXLo}]
RecycleDeltaTs == {DeathTime}

InitRecycle ==
    \E rnd \in Draws(RecycleViewport) :
       Dropped(ShippedConfig, RecycleViewport, TargetXLo, <<"a">>, <<rnd>>)

NextRecycle ==
    \/ \E deltaT \in RecycleDeltaTs : Frame(deltaT)
    \/ \E o \in 1..Len(droppers) : AnimationEnd(o)
    \/ \E name \in Names : Drop(name)

SpecRecycle == InitRecycle /\ [][NextRecycle]_vars

\* Sprite sheets: a sheet of 1 to MaxSpriteCount sprites and a sprite on its
\* frame 0, which is set to a random frame again and again. Math.random() is
\* k / Grain for a k in 0 .. Grain - 1.
MaxSpriteCount == 20
Grain == 32

\* Utils.randomIntInRange(min, max)
RandomIntInRange(min, max, k) == (k * (max - min + 1)) \div Grain + min

\* SpriteSheet.randomFrame()
RandomFrame(sh, k) == RandomIntInRange(0, sh.spriteCount, k)

InitSheet ==
    /\ sheet \in [spriteCount : 1..MaxSpriteCount, frame : {0}]
    /\ config = ShippedConfig
    /\ viewport = EngineViewport
    /\ sprites = <<0>>
    /\ droppers = <<>>
    /\ pool = <<>>
    /\ target = [x |-> TargetXLo, droppers |-> <<>>, cls |-> {"ghost"}]
    /\ running = FALSE
    /\ idleTime = 0
    /\ time = Time0
    /\ last = Nothing

\* sprite.setFrame(sprite.sheet.randomFrame())
SetRandomFrame ==
    /\ \E k \in 0..(Grain - 1) : sheet' = [sheet EXCEPT !.frame = RandomFrame(sheet, k)]
    /\ UNCHANGED <<config, viewport, sprites, droppers, pool, target, running,
                   idleTime, time, last>>

NextSheet == SetRandomFrame

SpecSheet == InitSheet /\ [][NextSheet]_vars

\* Suspension: the engine under the system clock. Time passes in naps of half
\* the idle time, with the loop running or not, up to MaxClock; a frame takes
\* its deltaT from the clock; every drop is the slow one from the middle.
MaxClock == 135000
Naps == {IdleTime \div 2}
ClockDraws == {rnd \in Draws(EngineViewport) : rnd.x = EngineViewport.w \div 2}

TimedDrop(name) ==
    \E tx \in (IF running THEN {target.x} ELSE TargetXs(viewport)),
       rnd \in ClockDraws :
       Listed(DropOp(World, name, tx, rnd))

Tick ==
    \E nap \in Naps :
       /\ time.now + nap <= MaxClock
       /\ Commit([World EXCEPT !.time.now = @ + nap])

TimedFrame ==
    /\ running
    /\ Commit(TimedRenderLoop(World))

NextClock ==
    \/ Tick
    \/ TimedFrame
    \/ \E name \in Names : TimedDrop(name)
    \/ \E name \in Names : Cut(name)
    \/ \E name \in Names : Abdicate(name)

SpecClock == Init /\ [][NextClock]_vars

\* Winding down: the engine with the animation frames of positive deltaT and
\* the animationend events delivered. The fairness of the frames is
\* WF_vars(Frame) with its ENABLED written out: a frame is enabled exactly
\* while the loop runs.
WindDownDeltaT == 45000

WindDownFrames ==
    \/ []<>(~running)
    \/ []<><<Frame(WindDownDeltaT)>>_vars

SpecWindDown ==
    /\ Spec
    /\ WindDownFrames
    /\ WF_vars(\E o \in 1..Len(droppers) : AnimationEnd(o))

\* Drifting: one dropper in a viewport 500 high, where the parachute brakes
\* the fall to its slowest and the dropper crosses the viewport from side to
\* side, spawned at both ends of the range of randomize() with the slowest
\* and the fastest speeds, with a cut command at any frame of the fall.
DriftViewport == [w |-> 600, h |-> 500, txs |-> {TargetXLo}]
DriftDeltaTs == {5000}

DriftDraws ==
    [x : {DropperXOffs(DriftViewport), DriftViewport.w - DropperXOffs(DriftViewport)},
     xSpeed : {-4999, Px(3)}, ySpeed : {Px(8), 9999},
     brakeHeight : {1, 8}, cutClock : {CutRangeLo}]

InitDrift ==
    \E rnd \in DriftDraws :
       Dropped(ShippedConfig, DriftViewport, TargetXLo, <<"a">>, <<rnd>>)

NextDrift ==
    \/ \E deltaT \in DriftDeltaTs : Frame(deltaT)
    \/ /\ ~droppers[1].landed
       /\ Cut("a")

SpecDrift == InitDrift /\ [][NextDrift]_vars

\* Descent: one drop from the slowest and the fastest spawn speed, with the
\* frames kept coming: requestAnimationFrame delivers the frame that
\* renderLoop() has scheduled.
DescentDraws ==
    [x : {DriftViewport.w \div 2}, xSpeed : {Px(3)}, ySpeed : {Px(8), 9999},
     brakeHeight : {8}, cutClock : {CutRangeLo}]

InitDescent ==
    \E rnd \in DescentDraws :
       Dropped(ShippedConfig, DriftViewport, TargetXLo, <<"a">>, <<rnd>>)

\* Weak fairness of the frames, WF_vars(\E deltaT : Frame(deltaT)), with
\* its ENABLED written out: a frame is enabled exactly while the loop runs.
DescentFrames ==
    \/ []<>(~running)
    \/ []<><<\E deltaT \in DriftDeltaTs : Frame(deltaT)>>_vars

SpecDescent == InitDescent /\ [][NextDrift]_vars /\ DescentFrames

\* The world new DropEngine() constructs under the configuration cfg.
Constructed(cfg, vp, tx) ==
    [cfg |-> cfg, vp |-> vp, sprites |-> <<0>>, d |-> <<>>, pool |-> <<>>,
     tx |-> tx, td |-> <<>>, tcls |-> {"ghost"},
     running |-> FALSE, idleTime |-> 0, time |-> Time0,
     notes |-> <<>>, cues |-> <<>>, loses |-> <<>>,
     arbRan |-> FALSE, arbIn |-> <<>>,
     took |-> 0, was |-> Flags(NewDropper),
     started |-> FALSE, stoppedAt |-> 0, upd |-> <<>>]

\* The script of the page: the engine is constructed, and its loop is started
\* at once if Config.IdleTime is 0.
Loaded(cfg, vp, tx) ==
    IF cfg.IdleTime = 0
    THEN StartRenderLoop(Constructed(cfg, vp, tx), tx)
    ELSE Constructed(cfg, vp, tx)

\* The variables hold the world w, and last what the operation that left it
\* emitted.
Holds(w) ==
    /\ config = w.cfg
    /\ viewport = w.vp
    /\ sprites = w.sprites
    /\ droppers = w.d
    /\ pool = w.pool
    /\ target = [x |-> w.tx, droppers |-> w.td, cls |-> w.tcls]
    /\ running = w.running
    /\ idleTime = w.idleTime
    /\ time = w.time
    /\ sheet = TargetSheet
    /\ last = [took |-> w.took, was |-> w.was,
               notes |-> w.notes, cues |-> w.cues, loses |-> w.loses,
               arbRan |-> w.arbRan, arbIn |-> w.arbIn,
               started |-> w.started, stoppedAt |-> w.stoppedAt, upd |-> w.upd]

\* The engine with Config.CutRange = null: cuts are instant.
NoDelayConfig == [ShippedConfig EXCEPT !.CutRangeNull = TRUE]

InitNoDelay ==
    \E tx \in TargetXs(EngineViewport) :
       Holds(Loaded(NoDelayConfig, EngineViewport, tx))

SpecNoDelay == InitNoDelay /\ [][Next]_vars

\* The engine with frame times that carry idleTime past Config.IdleTime
\* (40000, 80000, 120000) instead of onto it.
IdleDeltaTs == {0, 40000}

NextIdle ==
    \/ \E name \in Names : Drop(name)
    \/ \E name \in Names : Cut(name)
    \/ \E name \in Names : Abdicate(name)
    \/ \E o \in 1..Len(droppers) : AnimationEnd(o)
    \/ \E deltaT \in IdleDeltaTs : Frame(deltaT)

SpecIdle == Init /\ [][NextIdle]_vars

\* The engine with Config.IdleTime = 0: the loop is started when the page
\* loads.  Frames are taken while idleTime stays within MaxIdle.
MaxIdle == 180000
NoIdleConfig == [ShippedConfig EXCEPT !.IdleTime = 0]

InitNoIdle ==
    \E tx \in TargetXs(EngineViewport) :
       Holds(Loaded(NoIdleConfig, EngineViewport, tx))

NextNoIdle ==
    \/ \E name \in Names : Drop(name)
    \/ \E name \in Names : Cut(name)
    \/ \E name \in Names : Abdicate(name)
    \/ \E o \in 1..Len(droppers) : AnimationEnd(o)
    \/ \E deltaT \in DeltaTs : idleTime + deltaT <= MaxIdle /\ Frame(deltaT)

SpecNoIdle == InitNoIdle /\ [][NextNoIdle]_vars

\* The engine with Config.AbdicateAllowed as shipped (true) or false.
NoAbdicateConfig == [ShippedConfig EXCEPT !.AbdicateAllowed = FALSE]

InitAbdicate ==
    \E cfg \in {ShippedConfig, NoAbdicateConfig} :
       \E tx \in TargetXs(EngineViewport) :
          Holds(Loaded(cfg, EngineViewport, tx))

SpecAbdicate == InitAbdicate /\ [][Next]_vars

\* After the landing: two droppers that land on or beside the Target, with
\* frames of a quarter of DeathTime and of DeathTime, and abdication.
DeathDeltaTs == {1250, 5000}

InitDeath ==
    \E rnds \in [1..2 -> ArbDraws] :
       Dropped(ShippedConfig, ArbViewport, TargetXLo, <<"a", "b">>, rnds)

NextDeath ==
    \/ \E deltaT \in DeathDeltaTs : Frame(deltaT)
    \/ \E name \in Names : Abdicate(name)
    \/ \E o \in 1..Len(droppers) : AnimationEnd(o)

SpecDeath == InitDeath /\ [][NextDeath]_vars

\* Cutting: one dropper, with the lockout height set inside the viewport, and
\* cut commands at any time, after the landing included.
CutViewport == [w |-> 600, h |-> 300, txs |-> {TargetXLo}]
CutConfig == [ShippedConfig EXCEPT !.CutLockout = 100]
CutDeltaTs == {250, 5000}

InitCut ==
    \E rnd \in Draws(CutViewport) :
       Dropped(CutConfig, CutViewport, TargetXLo, <<"a">>, <<rnd>>)

NextCut ==
    \/ \E deltaT \in CutDeltaTs : Frame(deltaT)
    \/ Cut("a")

SpecCut == InitCut /\ [][NextCut]_vars

----------------------------------------------------------------------------
(* Target arbitration (SpecArb)                                            *)

\* The droppers Target.update found on the Target in the last frame.
ArbIn == {last.arbIn[i] : i \in 1..Len(last.arbIn)}

\* The highest dropScore among them, and the first of them that has it.
TopScore == CHOOSE m \in {droppers[o].dropScore : o \in ArbIn} :
               \A o \in ArbIn : droppers[o].dropScore <= m

FirstTop == last.arbIn[CHOOSE i \in 1..Len(last.arbIn) :
                /\ droppers[last.arbIn[i]].dropScore = TopScore
                /\ \A j \in 1..(i - 1) : droppers[last.arbIn[j]].dropScore < TopScore]

\* The displaced notifications (onTarget, not winner, not voluntary) of object o,
\* and its handleLose calls, in the last operation.
Displaced(o) ==
    Cardinality({i \in 1..Len(last.notes) :
                    /\ last.notes[i].obj = o
                    /\ last.notes[i].onTarget
                    /\ ~last.notes[i].winner
                    /\ ~last.notes[i].voluntary})

Lost(o) == Count(last.loses, o)

\* C1: after Target.update returns, the landed collection holds at most one
\* dropper, and if it is not empty that dropper's dropScore is greater than or
\* equal to the dropScore of every dropper that was in the collection when
\* update was called.
C1_UpdateKeepsTheHighest ==
    last.arbRan =>
        /\ Len(target.droppers) <= 1
        /\ target.droppers # <<>> =>
              \A o \in ArbIn :
                 droppers[target.droppers[1]].dropScore >= droppers[o].dropScore

\* Target.update has run over three droppers, the highest of them not the first.
C1_Witness ==
    /\ last.arbRan
    /\ Len(last.arbIn) = 3
    /\ Len(target.droppers) = 1
    /\ droppers[last.arbIn[1]].dropScore < droppers[target.droppers[1]].dropScore

\* C3: when several droppers of the landed collection share the highest
\* dropScore, the one that was added first remains the winner after
\* Target.update and the later ones of the equal score are demoted.
C3_FirstOfEqualTopStays ==
    (last.arbRan /\ Len(last.arbIn) > 1) =>
        /\ target.droppers = <<FirstTop>>
        /\ droppers[FirstTop].winner
        /\ \A o \in ArbIn \ {FirstTop} : ~droppers[o].winner /\ Lost(o) = 1

\* Target.update has run over a collection in which a later dropper has the
\* highest score too.
C3_Witness ==
    /\ last.arbRan
    /\ Len(last.arbIn) > 1
    /\ \E o \in ArbIn \ {FirstTop} : droppers[o].dropScore = TopScore

\* C4: in one arbitration pass over a landed collection of more than one
\* dropper, every dropper other than the one that remains has its lose transition
\* (handleLose and a notification onTarget = true, winner = false, voluntary =
\* false) fired exactly once, and the one that remains has it fired zero times.
C4_EachLoserDitchedOnce ==
    (last.arbRan /\ Len(last.arbIn) > 1) =>
        /\ Len(target.droppers) = 1
        /\ target.droppers[1] \in ArbIn
        /\ Lost(target.droppers[1]) = 0
        /\ Displaced(target.droppers[1]) = 0
        /\ \A o \in ArbIn \ {target.droppers[1]} : Lost(o) = 1 /\ Displaced(o) = 1

\* A pass over three droppers: two lose transitions, the first of them of the
\* dropper that led the collection until a higher score came.
C4_Witness ==
    /\ last.arbRan
    /\ Cardinality(ArbIn) = 3
    /\ Len(last.loses) = 2
    /\ last.loses[1] = last.arbIn[1]

----------------------------------------------------------------------------
(* The engine (Spec)                                                       *)

\* The dropper objects of the active list (DropEngine.sprites).
Active == {sprites[i] : i \in 1..Len(sprites)} \ {0}

\* The name is the name of a dropper of the active list that is falling, a
\* landed loser or the winner on the Target: not one that kill() has marked dead.
NameActive(name) == \E o \in Active : droppers[o].name = name /\ ~droppers[o].dead

\* C2: in every state between frames, after any sequence of drop, cut and
\* abdicate commands, animation-end events and frames, at most one dropper of
\* the active list has winner = true.
C2_AtMostOneWinner ==
    Cardinality({o \in Active : droppers[o].winner}) <= 1

\* A winner sits on the Target beside a dropper that landed on it and was
\* displaced in the last frame.
C2_Witness ==
    /\ \E o \in Active : droppers[o].winner
    /\ \E o \in Active : Displaced(o) = 1

\* C5: drop(name) with the name of an entity of the active list (falling, landed
\* loser, or winner on the Target) is a no-op: the number of active entities is
\* unchanged and no dropper is taken from the pool or constructed.
C5_DropOfActiveNameIsNoOp ==
    [][\A name \in Names :
          (NameActive(name) /\ Drop(name)) =>
             /\ Len(sprites') = Len(sprites)
             /\ pool' = pool
             /\ Len(droppers') = Len(droppers)]_vars

\* C6: in every reachable state no two entries of the active list are droppers
\* with the same name.
C6_NamesUnique ==
    \A i, j \in 1..Len(sprites) :
       (i # j /\ sprites[i] # 0 /\ sprites[j] # 0) =>
          droppers[sprites[i]].name # droppers[sprites[j]].name

----------------------------------------------------------------------------
(* Falling (SpecFall)                                                      *)

\* C7: once a dropper's cut has been triggered its ySpeed never exceeds 12, for
\* every ySpeed it can have at the moment of the cut and any number of frames.
C7_CutSpeedNeverExceeds12 ==
    \A o \in 1..Len(droppers) :
       droppers[o].cutTriggered => droppers[o].ySpeed <= Px(TerminalVelocity)

----------------------------------------------------------------------------
(* Landing (SpecLand)                                                      *)

\* The horizontal spans of a dropper's hitbox (its emote) and of the Target.
HitboxLeft(o) == droppers[o].x + EmoteX
HitboxRight(o) == HitboxLeft(o) + Px(EmoteW)
TargetLeft == Px(target.x)
TargetRight == TargetLeft + Px(TargetW)

Overlaps(o) == HitboxLeft(o) < TargetRight /\ HitboxRight(o) > TargetLeft

\* Twice the horizontal distance between the centres of the two spans.
CentreDist(o) == Abs((HitboxLeft(o) + HitboxRight(o)) - (TargetLeft + TargetRight))

\* The landed droppers whose position qualifies as a win.
Qualified == {o \in 1..Len(droppers) : droppers[o].landed /\ Overlaps(o)}

\* The score 100 (scores are numerators over MaxDist).
Score100 == 100 * MaxDist

\* Object o has the win notification (onTarget, winner) among the last ones.
WinNoted(o) ==
    \E i \in 1..Len(last.notes) :
       last.notes[i].obj = o /\ last.notes[i].onTarget /\ last.notes[i].winner

\* C9: for every landing position that qualifies as a win the score is in
\* (0, 100]: it is 100 exactly when the hitbox centre coincides with the Target
\* centre, it strictly decreases as the distance between the two centres grows,
\* and it is never 0 or negative.
C9_WinningScoreRange ==
    /\ \A o \in Qualified :
          /\ droppers[o].dropScore > 0
          /\ droppers[o].dropScore <= Score100
          /\ droppers[o].dropScore = Score100 <=> CentreDist(o) = 0
    /\ \A o1, o2 \in Qualified :
          CentreDist(o1) < CentreDist(o2) =>
             droppers[o1].dropScore > droppers[o2].dropScore

\* Two droppers have landed on the Target: one on its centre with the score 100,
\* the other with one pixel of its hitbox on the Target.
C9_Witness ==
    \E o1, o2 \in Qualified :
       /\ CentreDist(o1) = 0
       /\ droppers[o1].dropScore = Score100
       /\ HitboxRight(o2) = TargetLeft + Px(1)

\* C10: at landing a dropper becomes a winner if and only if its hitbox's span
\* overlaps the Target's span by at least one pixel (hitboxLeft < targetRight and
\* hitboxRight > targetLeft); a hitbox whose edge is exactly on a Target edge is
\* a loser.
C10_WinnerIffOverlap ==
    [][\A o \in 1..Len(droppers) :
          (~droppers[o].landed /\ droppers'[o].landed) =>
             /\ WinNoted(o)' <=> Overlaps(o)'
             /\ HitboxRight(o)' = TargetLeft' => ~WinNoted(o)'
             /\ HitboxLeft(o)' = TargetRight' => ~WinNoted(o)']_vars

\* Two droppers have landed in the last frame: one with its hitbox's right edge
\* exactly on the Target's left edge, as a loser, the other one pixel further in,
\* as a winner.
C10_Witness ==
    \E o1, o2 \in 1..Len(droppers) :
       /\ droppers[o1].landed /\ droppers[o2].landed
       /\ HitboxRight(o1) = TargetLeft
       /\ ~WinNoted(o1) /\ ~droppers[o1].winner
       /\ HitboxRight(o2) = TargetLeft + Px(1)
       /\ WinNoted(o2) /\ droppers[o2].winner

(***************************************************************************)
(* Cut requests, in the engine Spec and under SpecCut.                     *)
(***************************************************************************)

\* The dropper engine.cut(name) hands to cut_chute(), or 0 when it hands none.
CutTarget(name) ==
    IF config.CutAllowed /\ running /\ FindName(World, name, 1) # 0
    THEN sprites[FindName(World, name, 1)] ELSE 0

\* The cases in which a cut request is to be turned down.
AlreadyRequested(o) == droppers[o].cutRequested
PastLockout(o) == droppers[o].y > Px(config.CutLockout)
AlreadyLanded(o) == droppers[o].landed

\* C11: a cut request for a dropper that has already requested a cut, is below
\* the lockout height (y > CutLockout) or has landed leaves the dropper as it
\* was (cutRequested included, no cut classes on the emote) and plays no snip.
C11_RejectedCutIsNoOp ==
    [][\A name \in Names :
          LET o == CutTarget(name) IN
          (/\ o # 0
           /\ (AlreadyRequested(o) \/ PastLockout(o) \/ AlreadyLanded(o))
           /\ Cut(name)) =>
             /\ droppers'[o] = droppers[o]
             /\ \A i \in 1..Len(last'.cues) : last'.cues[i] # "Snip"]_vars

\* The sounds the last operation played.
Cues == {last.cues[i] : i \in 1..Len(last.cues)}

C13_CutDelayWithinRange ==
    \A o \in Active :
       droppers[o].cutRequested =>
          /\ droppers[o].cutWait < CutRangeLo => ~droppers[o].cutTriggered
          /\ droppers[o].cutWait >= CutRangeHi => droppers[o].cutTriggered

\* A falling dropper whose parachute was released between CutRange[0] and
\* CutRange[1] after its request.
C13_Witness ==
    \E o \in Active :
       /\ droppers[o].cutTriggered /\ ~droppers[o].landed
       /\ droppers[o].cutWait >= CutRangeLo
       /\ droppers[o].cutWait < CutRangeHi

(***************************************************************************)
(* Instant cuts (SpecNoDelay)                                              *)
(***************************************************************************)

\* C14: with CutRange null, a falling dropper whose cut has been requested
\* has cutTriggered = true at the end of the next frame, whatever the deltaT
\* of that frame, 0 included; its cut clock starts at 0.
C14_NullRangeCutsAtOnce ==
    [][\A deltaT \in DeltaTs : \A o \in Active :
          (/\ droppers[o].cutRequested
           /\ ~droppers[o].landed
           /\ Frame(deltaT)) =>
             droppers'[o].cutTriggered]_vars

\* A falling dropper whose parachute was released by a frame of deltaT 0, the
\* first frame after its cut request.
C14_Witness ==
    \E o \in Active :
       /\ droppers[o].cutRequested /\ droppers[o].cutTriggered
       /\ ~droppers[o].landed
       /\ droppers[o].cutClock = 0
       /\ last.cues = <<>>

(***************************************************************************)
(* The idle timeout (SpecIdle, SpecNoIdle)                                 *)
(***************************************************************************)

\* The sprite list renderLoop counts as idle: the Target alone, or the Target
\* and the one dropper that sits on it.
IdleList == Len(sprites) = 1 \/ (Len(sprites) = 2 /\ Len(target.droppers) = 1)

\* C15: with IdleTime not 0, a frame that begins with an idle sprite list and
\* an idleTime above IdleTime stops the loop: running is false after it, the
\* Target is hidden and, the loop having requested no frame, idleTime is 0.
C15_IdleTimeoutSuspends ==
    [][\A deltaT \in IdleDeltaTs :
          (/\ config.IdleTime # 0
           /\ IdleList
           /\ idleTime > config.IdleTime
           /\ Frame(deltaT)) =>
             /\ ~running'
             /\ idleTime' = 0
             /\ "ghost" \in target'.cls]_vars

\* The loop has just been stopped by a frame that found idleTime above
\* IdleTime, and the winner that sat on the Target has gone to the pool.
C15_Witness ==
    /\ ~running
    /\ last.stoppedAt > config.IdleTime
    /\ pool # <<>>
    /\ sprites = <<0>>

\* C16: a drop, in a suspended engine, of a name that no active dropper has
\* starts the loop before it adds the dropper: after it running is true, the
\* Target is at a position positionTarget() draws and is shown, idleTime is 0,
\* and the dropper of that name is the last entry of the sprite list, at its
\* spawn height, untouched by the frame the start of the loop ran.
C16_DropResumesBeforeAdding ==
    [][\A name \in Names :
          (~running /\ ~NameActive(name) /\ Drop(name)) =>
             /\ running' /\ last'.started
             /\ target'.x \in TargetXs(viewport)
             /\ "fadeIn" \in target'.cls /\ "ghost" \notin target'.cls
             /\ idleTime' = 0
             /\ LET o == sprites'[Len(sprites')] IN
                /\ o # 0
                /\ droppers'[o].name = name
                /\ ~droppers'[o].dead /\ ~droppers'[o].landed
                /\ droppers'[o].y = Px(SpawnY)]_vars

\* A drop has restarted the loop that the idle timeout had stopped, and put
\* the dropper it took from the pool in the list beside the Target.
C16_Witness ==
    /\ last.started /\ running
    /\ last.took # 0
    /\ sprites = <<0, last.took>>
    /\ droppers[last.took].y = Px(SpawnY)

\* C17: with IdleTime = 0 the loop runs from the load of the page on and is
\* never stopped: running is true in every state and the Target is never
\* hidden again, however far idleTime grows.
C17_NoIdleNeverSuspends ==
    /\ running
    /\ last.stoppedAt = 0
    /\ "ghost" \notin target.cls

\* The Target has been alone in the list for longer than the idle time the
\* engine ships with, and the loop is running.
C17_Witness ==
    /\ running
    /\ sprites = <<0>>
    /\ idleTime > IdleTime

(***************************************************************************)
(* Abdication, notifications and the death clock (Spec)                    *)
(***************************************************************************)

\* The places of Target.droppers that hold a dropper of the given name.
OnTargetNamed(name) ==
    {i \in 1..Len(target.droppers) : droppers[target.droppers[i]].name = name}

\* The least of a non-empty set of numbers.
Least(S) == CHOOSE i \in S : \A j \in S : i <= j

\* C18: abdicate(name), when abdication is allowed and a dropper of that name
\* is in Target.droppers, takes that one dropper out of Target.droppers, sets
\* its winner flag to false and transmits one notification, onTarget = true,
\* winner = false, voluntary = true; every other dropper is left as it was.
C18_AbdicateRemovesOnlyThatDropper ==
    [][\A name \in Names :
          (config.AbdicateAllowed /\ OnTargetNamed(name) # {} /\ Abdicate(name)) =>
             LET i == Least(OnTargetNamed(name))
                 o == target.droppers[i]
             IN /\ target'.droppers = RemoveAt(target.droppers, i)
                /\ ~droppers'[o].winner
                /\ last'.notes = <<[obj |-> o, name |-> name, onTarget |-> TRUE,
                                    winner |-> FALSE, voluntary |-> TRUE]>>
                /\ Len(droppers') = Len(droppers)
                /\ \A p \in 1..Len(droppers) : p # o => droppers'[p] = droppers[p]
                /\ sprites' = sprites /\ pool' = pool]_vars

\* The winner has just abdicated while another dropper is in the list: the
\* Target is empty and the one that abdicated is a landed loser.
C18_Witness ==
    /\ Len(last.notes) = 1
    /\ last.notes[1].voluntary
    /\ target.droppers = <<>>
    /\ Len(droppers) >= 2
    /\ droppers[last.notes[1].obj].landed
    /\ ~droppers[last.notes[1].obj].winner

\* The <<onTarget, winner>> pairs of the three notifications.
NoteWin == <<TRUE, TRUE>>
NoteMiss == <<FALSE, FALSE>>
NoteDitched == <<TRUE, FALSE>>

\* C19: in every step, each dropper that has landed in its current drop has
\* transmitted the one notification of its landing, (true, true) if it landed
\* on the Target and (false, false) if it missed, and one that has not landed
\* has transmitted none; a notification (true, false) comes only after the
\* (true, true) of the same drop and at most once; and a notification with
\* voluntary = true is a (true, false) transmitted by an abdicate of that name.
C19_NotificationProtocol ==
    [][/\ \A o \in 1..Len(droppers') :
             /\ droppers'[o].sent \in {<<>>, <<NoteMiss>>, <<NoteWin>>,
                                       <<NoteWin, NoteDitched>>}
             /\ droppers'[o].landed <=> droppers'[o].sent # <<>>
       /\ \A o \in 1..Len(droppers) :
             (~droppers[o].landed /\ droppers'[o].landed) =>
                droppers'[o].sent[1] = IF Overlaps(o)' THEN NoteWin ELSE NoteMiss
       /\ \A i \in 1..Len(last'.notes) :
             last'.notes[i].voluntary =>
                /\ <<last'.notes[i].onTarget, last'.notes[i].winner>> = NoteDitched
                /\ Abdicate(last'.notes[i].name)]_vars

\* Of two droppers in the list one has missed the Target and the other has
\* landed on it and then been ditched, each with its notifications.
C19_Witness ==
    \E o1, o2 \in Active :
       /\ droppers[o1].sent = <<NoteMiss>>
       /\ droppers[o2].sent = <<NoteWin, NoteDitched>>

\* C20: no step advances the death clock of a dropper whose winner flag is
\* true or leaves it with dropComplete set, whatever the deltaT of the frame;
\* a winner's death clock is 0 and its dropComplete false.
C20_WinnerNeverCompletes ==
    [][/\ \A o \in 1..Len(droppers) :
             droppers[o].winner =>
                /\ droppers'[o].deathClock = droppers[o].deathClock
                /\ ~droppers'[o].dropComplete
       /\ \A o \in 1..Len(droppers') :
             droppers'[o].winner =>
                droppers'[o].deathClock = 0 /\ ~droppers'[o].dropComplete]_vars

\* A winner has sat on the Target through frames that add up to more than
\* DeathTime, and is still there, not complete.
C20_Witness ==
    \E o \in Active :
       /\ droppers[o].winner /\ ~droppers[o].dead
       /\ target.droppers = <<o>>
       /\ idleTime > DeathTime
       /\ droppers[o].deathClock = 0

(***************************************************************************)
(* Dropper flags, abdication that does nothing, ownership (Spec, SpecIdle) *)
(***************************************************************************)

\* C21: in every reachable state every dropper, in the list or in the pool,
\* has cutRequested if it has cutTriggered, and is landed and not the winner
\* if it has dropComplete.
C21_FlagInvariants ==
    \A o \in 1..Len(droppers) :
       /\ droppers[o].cutTriggered => droppers[o].cutRequested
       /\ droppers[o].dropComplete => droppers[o].landed /\ ~droppers[o].winner

\* One dropper falls with its parachute cut away while another has completed
\* its drop as a landed loser.
C21_Witness ==
    \E o1, o2 \in 1..Len(droppers) :
       /\ droppers[o1].cutTriggered /\ ~droppers[o1].landed
       /\ droppers[o2].dropComplete

\* C22: abdicate(name) changes nothing and notifies nobody when abdication is
\* not allowed or no dropper of that name is in Target.droppers, be it that
\* no dropper has the name or that the one that has it is falling or a loser.
C22_AbdicateElseNoOp ==
    [][\A name \in Names :
          (/\ ~config.AbdicateAllowed \/ OnTargetNamed(name) = {}
           /\ Abdicate(name)) =>
             /\ UNCHANGED <<config, viewport, sprites, droppers, pool, target,
                            running, idleTime, time>>
             /\ last'.notes = <<>> /\ last'.cues = <<>> /\ last'.loses = <<>>]_vars

\* Abdication is not allowed, a winner sits on the Target, and the last
\* operation changed and emitted nothing.
C22_Witness ==
    /\ ~config.AbdicateAllowed
    /\ \E o \in Active : droppers[o].winner /\ target.droppers = <<o>>
    /\ last = Nothing

\* The droppers of the active list that are still falling.
Falling == {o \in Active : ~droppers[o].dead /\ ~droppers[o].landed}

\* C23: whenever the loop is not running no dropper of the active list is
\* still falling: the idle timeout never stops the loop during a drop.
C23_NeverSuspendsDuringDrop == ~running => Falling = {}

\* C24: no dropper object is at two places of the active list, and drop()
\* takes from the pool no dropper that is still in the list.
C24_ExclusiveOwnership ==
    /\ \A i, j \in 1..Len(sprites) : i # j => sprites[i] # sprites[j]
    /\ last.took # 0 => Cardinality({i \in 1..Len(sprites) : sprites[i] = last.took}) = 1

(***************************************************************************)
(* The update pass and the idle time (Spec)                                *)
(***************************************************************************)

\* The entities of the active list, the Target (0) included.
Listed0 == {sprites[i] : i \in 1..Len(sprites)}

\* The active list without the entries that are dead droppers after the step.
Survivors == SelectSeq(sprites, LAMBDA e : e = 0 \/ ~droppers'[e].dead)

\* C25: a frame calls update() exactly once on every entity that is in the
\* active list when it starts, and leaves in the list, in their order, exactly
\* the entries that are not dead.
C25_EachEntityUpdatedOnce ==
    [][\A deltaT \in DeltaTs :
          Frame(deltaT) =>
             /\ \A e \in Listed0 : Count(last'.upd, e) = 1
             /\ Len(last'.upd) = Cardinality(Listed0)
             /\ sprites' = Survivors]_vars

\* The active list after the step is the Target alone, or the Target and one
\* dropper that is the sole entry of Target.droppers.
IdleAfter ==
    \/ sprites' = <<0>>
    \/ /\ Len(sprites') = 2 /\ sprites'[1] = 0
       /\ target'.droppers = <<sprites'[2]>>

\* C26: a frame after which the loop still runs adds deltaT to idleTime if it
\* ends with the Target alone in the active list, or the Target and the one
\* dropper that is the sole entry of Target.droppers, and sets idleTime to 0
\* otherwise; and idleTime is 0 whenever the loop is not running.
C26_IdleTimeAccounting ==
    [][/\ \A deltaT \in DeltaTs :
             (Frame(deltaT) /\ running') =>
                idleTime' = IF IdleAfter THEN idleTime + deltaT ELSE 0
       /\ ~running' => idleTime' = 0]_vars

\* The engine has been idle for two frames with a winner on the Target.
C26_Witness ==
    /\ running
    /\ idleTime = IdleTime
    /\ Len(sprites) = 2
    /\ target.droppers = <<sprites[2]>>
    /\ last.upd = <<sprites[2], 0>>

\* C27: the frame in which the idle timeout stops the loop kills every dropper
\* of Target.droppers (dead, and once in the pool), empties Target.droppers
\* and leaves no landed dropper in the active list.
C27_IdleStopDespawnsLanded ==
    [][\A deltaT \in DeltaTs :
          (Frame(deltaT) /\ ~running') =>
             /\ \A i \in 1..Len(target.droppers) :
                   /\ droppers'[target.droppers[i]].dead
                   /\ Count(pool', target.droppers[i]) = 1
             /\ target'.droppers = <<>>
             /\ \A o \in Active' : ~droppers'[o].landed]_vars

(***************************************************************************)
(* The death clock (SpecDeath)                                             *)
(***************************************************************************)

\* C28: an update of a landed dropper that is not the winner and not complete
\* adds deltaT to its death clock, and dropComplete is true after it exactly
\* if the clock has reached DeathTime; the clock is 0 at the landing and at
\* the step that takes the winner flag away, and below DeathTime as long as
\* dropComplete is false.
C28_DeathClockCompletesAt5000 ==
    [][/\ \A deltaT \in DeathDeltaTs : \A o \in 1..Len(droppers) :
             (/\ Frame(deltaT)
              /\ Count(last'.upd, o) = 1
              /\ droppers[o].landed
              /\ ~droppers[o].winner
              /\ ~droppers[o].dropComplete) =>
                /\ droppers'[o].deathClock = droppers[o].deathClock + deltaT
                /\ droppers'[o].dropComplete <=>
                      droppers[o].deathClock + deltaT >= DeathTime
       /\ \A o \in 1..Len(droppers) :
             \/ ~droppers[o].landed /\ droppers'[o].landed
             \/ droppers[o].winner /\ ~droppers'[o].winner
             => droppers'[o].deathClock = 0 /\ ~droppers'[o].dropComplete
       /\ \A o \in 1..Len(droppers') :
             (droppers'[o].landed /\ ~droppers'[o].dropComplete) =>
                droppers'[o].deathClock < DeathTime]_vars

\* A winner that was ditched has completed its drop with a death clock of
\* exactly DeathTime.
C28_Witness ==
    \E o \in 1..Len(droppers) :
       /\ droppers[o].sent = <<NoteWin, NoteDitched>>
       /\ droppers[o].dropComplete
       /\ droppers[o].deathClock = DeathTime

(***************************************************************************)
(* Deployment and landing (SpecCut, Spec)                                  *)
(***************************************************************************)

\* C29: in the course of a drop, an update of the falling dropper leaves it
\* deployed exactly if it was deployed already or no cut was requested and the
\* update has moved it to y >= 0; deploy_chute runs (its sound plays) in the
\* steps in which deployed turns true and in no other, deployed never turns
\* false again, and a dropper whose cut is requested while it is not deployed
\* is not deployed by any later step.
C29_DeploysOncePerDrop ==
    [][\A o \in 1..Len(droppers) :
          /\ \A deltaT \in CutDeltaTs :
                (Frame(deltaT) /\ ~droppers[o].landed) =>
                   (droppers'[o].deployed <=>
                       \/ droppers[o].deployed
                       \/ ~droppers[o].cutRequested /\ droppers'[o].y >= 0)
          /\ Count(last'.cues, "Parachute") =
                IF ~droppers[o].deployed /\ droppers'[o].deployed THEN 1 ELSE 0
          /\ droppers[o].deployed => droppers'[o].deployed
          /\ (droppers[o].cutRequested /\ ~droppers[o].deployed) =>
                (droppers'[o].cutRequested /\ ~droppers'[o].deployed)]_vars

\* The last frame has brought the dropper onto the screen with no cut
\* requested and deployed its parachute.
C29_Witness ==
    /\ Count(last.cues, "Parachute") = 1
    /\ droppers[1].deployed
    /\ ~droppers[1].cutRequested
    /\ droppers[1].y >= 0
    /\ droppers[1].y < droppers[1].ySpeed + Px(1)

\* C30: no step changes the x or y of a landed dropper or clears its landed
\* flag, be it a frame, a cut request, an arbitration or an abdication, except
\* the drop that takes it from the pool and randomizes it anew.
C30_LandedStaysPut ==
    [][\A o \in 1..Len(droppers) :
          (droppers[o].landed /\ last'.took # o) =>
             /\ droppers'[o].x = droppers[o].x
             /\ droppers'[o].y = droppers[o].y
             /\ droppers'[o].landed]_vars

\* A dropper that landed on the Target and was ditched has since been updated
\* as a loser, and is still at the landing plane.
C30_Witness ==
    \E o \in Active :
       /\ droppers[o].landed
       /\ droppers[o].sent = <<NoteWin, NoteDitched>>
       /\ droppers[o].deathClock > 0
       /\ droppers[o].y + EmoteY >= LandingPlane(viewport)
       /\ droppers[o].y + EmoteY < LandingPlane(viewport) + droppers[o].ySpeed

(***************************************************************************)
(* The fall: bounce, braking, termination (SpecDrift)                      *)
(***************************************************************************)

\* The hitbox's left edge is at or beyond a side of the viewport.
AtEdge(o) ==
    \/ HitboxLeft(o) <= 0
    \/ HitboxLeft(o) >= Px(viewport.w) - Px(EmoteW)

\* C31: during a drop no step changes the magnitude of xSpeed, and an update
\* of a falling dropper whose hitbox is at or beyond a side of the viewport
\* brings it back inside: it is never there after two updates in a row.
C31_BounceFlipsAndReturns ==
    [][\A o \in 1..Len(droppers) :
          /\ Abs(droppers'[o].xSpeed) = Abs(droppers[o].xSpeed)
          /\ \A deltaT \in DriftDeltaTs :
                (Frame(deltaT) /\ ~droppers[o].landed /\ AtEdge(o)) =>
                   ~AtEdge(o)']_vars

\* The falling dropper has crossed the left side of the viewport in the last
\* update and been turned from its fastest speed leftwards to the right.
C31_Witness ==
    /\ ~droppers[1].landed
    /\ HitboxLeft(1) <= 0
    /\ droppers[1].xSpeed > 0
    /\ droppers[1].xSpeed # Px(3)

\* C32: while the cut is not triggered, the ySpeed of a dropper is never
\* less than 0.5.
C32_BrakingStopsAtFloor ==
    \A o \in 1..Len(droppers) :
       ~droppers[o].cutTriggered => droppers[o].ySpeed >= 500

\* C33: a frame leaves the ySpeed of a falling dropper above zero and its y
\* higher than before, and, the frames kept coming, the dropper lands.
C33_EveryDropLands ==
    /\ [][\A deltaT \in DriftDeltaTs :
             (Frame(deltaT) /\ ~droppers[1].landed) =>
                /\ droppers'[1].ySpeed > 0
                /\ droppers'[1].y > droppers[1].y]_vars
    /\ <>droppers[1].landed

\* The dropper has landed at its slowest, braked all the way and never cut.
C33_Witness ==
    /\ droppers[1].landed
    /\ ~droppers[1].cutRequested
    /\ droppers[1].ySpeed < 500

(***************************************************************************)
(* Winding down to idle (SpecWindDown)                                     *)
(***************************************************************************)

\* A command of the chat: drop, cut or abdicate.
Command ==
    \E name \in Names : Drop(name) \/ Cut(name) \/ Abdicate(name)

\* C34: unless commands keep coming, every state in which the loop runs is
\* followed by a state in which it does not run and the Target is alone in
\* the active list.
C34_WindsDownToIdle ==
    \/ []<><<Command>>_vars
    \/ running ~> (~running /\ sprites = <<0>>)

(***************************************************************************)
(* Abdication and the relaunch (SpecRelaunch)                              *)
(***************************************************************************)

\* The step is a drop(name) that is accepted: it adds a dropper to the list.
Accepted(name) == Relaunch(name) /\ Len(sprites') > Len(sprites)

\* C35: after abdicate(name) of the winner, drop(name) is accepted only once
\* a frame has removed the abdicated dropper from the active list: an
\* accepted drop(name) leaves no dropper in the list that abdicated under
\* that name and has not been removed since.
C35_RelaunchOnlyAfterRemoval ==
    [][\A name \in Names :
          Accepted(name) => \A o \in Active' : droppers'[o].quit # name]_vars

(***************************************************************************)
(* Target.droppers and the winner flags (Spec)                             *)
(***************************************************************************)

\* The droppers of Target.droppers.
OnTargetList == {target.droppers[i] : i \in 1..Len(target.droppers)}

\* C36: in every state between frames, every dropper of Target.droppers is in
\* the active list, landed and a winner, every dropper of the active list
\* that is a winner is in Target.droppers, and no dropper is a winner without
\* having landed.
C36_TargetListIsTheWinners ==
    /\ \A o \in OnTargetList :
          o \in Active /\ droppers[o].landed /\ droppers[o].winner
    /\ \A o \in Active : droppers[o].winner => o \in OnTargetList
    /\ \A o \in 1..Len(droppers) : droppers[o].winner => droppers[o].landed

\* A winner is in Target.droppers beside a landed loser in the active list.
C36_Witness ==
    /\ OnTargetList # {}
    /\ \E o \in Active : droppers[o].landed /\ ~droppers[o].winner /\ ~droppers[o].dead

(***************************************************************************)
(* The rejected drop (Spec)                                                *)
(***************************************************************************)

\* C37: drop(name) with the name of a live dropper of the active list leaves
\* the engine as it was, whether the loop runs or not: the running flag, the
\* Target, the idle time, the pool, the active list and its droppers.
C37_RejectedDropChangesNothing ==
    [][\A name \in Names :
          (NameActive(name) /\ Drop(name)) =>
             /\ running' = running
             /\ target' = target
             /\ idleTime' = idleTime
             /\ pool' = pool
             /\ sprites' = sprites
             /\ droppers' = droppers]_vars

(***************************************************************************)
(* The frame timers and the suspension (SpecClock)                         *)
(***************************************************************************)

\* The time that passes on the clock during the step.
Elapsed == time'.now - time.now

\* C38: the drop that starts the loop sets the frame timer to the moment of
\* the start, and the frame it runs advances the idle time and the death and
\* cut clocks of the droppers that were in the list by no more than the time
\* that passes during the start: the time since the last frame is not counted.
C38_SuspensionIsNotCounted ==
    [][\A name \in Names :
          (~running /\ TimedDrop(name)) =>
             /\ time'.thisFrameTime >= time.now
             /\ time'.thisFrameTime - time'.lastFrameTime <= Elapsed
             /\ idleTime' <= idleTime + Elapsed
             /\ \A o \in Active \ {last'.took} :
                   /\ droppers'[o].deathClock <= droppers[o].deathClock + Elapsed
                   /\ droppers'[o].cutClock >= droppers[o].cutClock - Elapsed]_vars

\* A drop has started the loop again after a suspension, and the start frame
\* has updated a falling dropper whose cut was pending and a landed loser
\* whose death clock was to run.
C38_Witness ==
    /\ last.started /\ time.slept > 0
    /\ \E o \in Active :
          /\ ~droppers[o].landed
          /\ droppers[o].cutRequested /\ ~droppers[o].cutTriggered
    /\ \E o \in Active :
          /\ droppers[o].landed /\ ~droppers[o].winner
          /\ ~droppers[o].dropComplete

(***************************************************************************)
(* The parachute of a recycled dropper (SpecRecycle)                       *)
(***************************************************************************)

\* C39: a step in which a dropper deploys its parachute leaves the parachute
\* with the class of the deploy animation and without the class ghost, on
\* the first drop of the dropper and on every later one.
C39_DeployShowsTheChute ==
    [][\A o \in 1..Len(droppers) :
          (~droppers[o].deployed /\ droppers'[o].deployed) =>
             /\ "deployChute" \in droppers'[o].chute
             /\ "ghost" \notin droppers'[o].chute]_vars

(***************************************************************************)
(* SpriteSheet.randomFrame (SpecSheet)                                     *)
(***************************************************************************)

\* C40: the frame randomFrame() has selected is a frame of the sheet: an
\* index from 0 to spriteCount - 1.
C40_RandomFrameIsAFrame == sheet.frame \in 0..(sheet.spriteCount - 1)

====
